---- MODULE Spec2Model ----
(***************************************************************************)
(* Model of src/pages/api/lead.ts: the in-memory fixed-window rate limiter *)
(* (rateLimitMap, checkRateLimit, the setInterval sweep) and the POST      *)
(* handler that runs config check, rate check, body parse, validation,     *)
(* sanitization and the two awaited sends.                                 *)
(*                                                                         *)
(* Time is the value of Date.now() in milliseconds.  The clock is an input *)
(* of the program; it advances by amounts drawn from ClockSteps, which     *)
(* place calls just inside, exactly on and just past the window boundary.  *)
(***************************************************************************)
EXTENDS Integers, Sequences, FiniteSets, TLC

(***************************************************************************)
(* Bounds of the model.                                                    *)
(***************************************************************************)
MaxAdvances == 2       \* clock advances in one behaviour
MaxCalls == 7          \* direct calls of checkRateLimit in one behaviour (SpecLimiter)
MaxRequests == 2       \* requests in one behaviour (Spec)
MaxBurst == 6          \* requests of one client in one behaviour (SpecBurst)
MaxCallsOneClient == 11  \* calls of one client in one behaviour (SpecOneClient)
MaxLen == 5            \* length of the short strings given to sanitize
ScaledLimit == 3       \* the length limit of sanitize on the short strings

(***************************************************************************)
(* Program constants.                                                      *)
(***************************************************************************)
RATE_LIMIT_WINDOW == 60 * 1000
RATE_LIMIT_MAX == 5

\* Client identifiers (the keys of rateLimitMap).
Clients == {"ip1", "ip2"}

\* Amounts by which Date.now() moves between two events.
ClockSteps == {1, RATE_LIMIT_WINDOW}

VARIABLES
    rateLimitMap,   \* Map<string, {count, timestamp}>: a function on the set of keys present
    now,            \* Date.now()
    advances,       \* number of clock advances so far
    noSweepMap,     \* the table of a system given the same calls at the same times
                    \* whose interval callback never runs
    log,            \* per client: the calls of checkRateLimit made so far, see LogEntry
    last,           \* the latest event: [op, ip, ok]
    req,            \* per handler slot: the request it is handling, see IdleRequest
    started,        \* number of requests POST has been called for
    served,         \* per status: the number of requests that left with it
    twinMap,        \* the table of a second run given the same calls of one client
                    \* at the same times and other calls of the other clients
    sanitized       \* the latest call of sanitize: [str, limit, result]

vars == <<rateLimitMap, now, advances, noSweepMap, log, last, req, started,
          served, twinMap, sanitized>>

(***************************************************************************)
(* checkRateLimit (lines 12-27), split into the value it returns and the   *)
(* table it leaves behind.                                                 *)
(***************************************************************************)
\* line 16, mutated: >= for >
WindowExpiredAtBoundary(record, t) == t - record.timestamp >= RATE_LIMIT_WINDOW

\* line 16: !record || now - record.timestamp > RATE_LIMIT_WINDOW
WindowExpired(record, t) == t - record.timestamp > RATE_LIMIT_WINDOW

StartsNewWindow(map, ip, t) ==
    \/ ip \notin DOMAIN map
    \/ WindowExpired(map[ip], t)

\* line 21, mutated: the limit is reached one call early
LimitReachedEarly(record) == record.count >= RATE_LIMIT_MAX - 1

\* line 21: record.count >= RATE_LIMIT_MAX
LimitReached(record) == record.count >= RATE_LIMIT_MAX

\* rateLimitMap.set(ip, rec)
MapSet(map, ip, rec) ==
    [k \in (DOMAIN map) \cup {ip} |-> IF k = ip THEN rec ELSE map[k]]

\* rateLimitMap.delete(ip) for every ip of a set
MapDelete(map, ips) == [k \in (DOMAIN map) \ ips |-> map[k]]

\* line 21, mutated: the limit is tested on every record of the table
checkRateLimitReturnsAnyRecord(map, ip, t) ==
    IF StartsNewWindow(map, ip, t) THEN TRUE
    ELSE IF \E k \in DOMAIN map : LimitReached(map[k]) THEN FALSE
    ELSE TRUE

\* the value returned by checkRateLimit(ip) called at time t on table map
checkRateLimitReturns(map, ip, t) ==
    IF StartsNewWindow(map, ip, t) THEN TRUE
    ELSE IF LimitReached(map[ip]) THEN FALSE
    ELSE TRUE

\* lines 16-26, mutated: record.count++ runs before the limit is tested
checkRateLimitTableCountsRejected(map, ip, t) ==
    IF StartsNewWindow(map, ip, t)
        THEN MapSet(map, ip, [count |-> 1, timestamp |-> t])
    ELSE MapSet(map, ip, [count |-> map[ip].count + 1, timestamp |-> map[ip].timestamp])

\* line 25, mutated: record.count++ is lost
checkRateLimitTableLosesIncrement(map, ip, t) ==
    IF StartsNewWindow(map, ip, t)
        THEN MapSet(map, ip, [count |-> 1, timestamp |-> t])
    ELSE map

\* the table after checkRateLimit(ip) called at time t on table map
checkRateLimitTable(map, ip, t) ==
    IF StartsNewWindow(map, ip, t)
        THEN MapSet(map, ip, [count |-> 1, timestamp |-> t])
    ELSE IF LimitReached(map[ip]) THEN map
    ELSE MapSet(map, ip, [count |-> map[ip].count + 1, timestamp |-> map[ip].timestamp])

(***************************************************************************)
(* The setInterval callback (lines 31-38).                                 *)
(***************************************************************************)
\* line 34, mutated: the operands of the subtraction swapped
SweepDeletesSwapped(map, t) ==
    {ip \in DOMAIN map : map[ip].timestamp - t > RATE_LIMIT_WINDOW}

\* line 34, mutated: >= for >
SweepDeletesAtBoundary(map, t) ==
    {ip \in DOMAIN map : t - map[ip].timestamp >= RATE_LIMIT_WINDOW}

\* line 34, mutated: the age of the record is not tested
SweepDeletesEvery(map, t) == DOMAIN map

\* lines 33-36: the keys the callback deletes
SweepDeletes(map, t) == {ip \in DOMAIN map : t - map[ip].timestamp > RATE_LIMIT_WINDOW}

SweepTable(map, t) == MapDelete(map, SweepDeletes(map, t))

(***************************************************************************)
(* Actions of the rate limiter on its own.                                 *)
(***************************************************************************)
EmptyMap == [k \in {} |-> [count |-> 0, timestamp |-> 0]]

\* the statuses a request can leave with (0: an exception left the handler)
Statuses == {0, 200, 400, 429, 500}
NoneServed == [s \in Statuses |-> 0]

\* no call of sanitize made yet
NoSanitizeCall == [str |-> <<>>, limit |-> 0, result |-> <<>>]

Event(op, ip, ok) == [op |-> op, ip |-> ip, ok |-> ok]

\* What one call of checkRateLimit(ip) at time now leaves in the log:
\*   t          Date.now() of the call
\*   ok         the value returned
\*   ts         record.timestamp of the client's record after the call
\*   okNoSweep  the value returned in the system that never sweeps
\*   gone       the sweep had deleted a record the other system still holds
LogEntry(ip) ==
    [t |-> now,
     ok |-> checkRateLimitReturns(rateLimitMap, ip, now),
     ts |-> checkRateLimitTable(rateLimitMap, ip, now)[ip].timestamp,
     okNoSweep |-> checkRateLimitReturns(noSweepMap, ip, now),
     gone |-> ip \notin DOMAIN rateLimitMap /\ ip \in DOMAIN noSweepMap]

InitLimiter ==
    /\ rateLimitMap = EmptyMap
    /\ noSweepMap = EmptyMap
    /\ now = 0
    /\ advances = 0
    /\ log = [c \in Clients |-> <<>>]
    /\ last = Event("none", "", TRUE)
    /\ req = <<>>
    /\ started = 0
    /\ served = NoneServed
    /\ twinMap = EmptyMap
    /\ sanitized = NoSanitizeCall

TotalCalls == Len(log["ip1"]) + Len(log["ip2"])

\* one call checkRateLimit(ip)
CheckRateLimitRuns(ip) ==
    /\ rateLimitMap' = checkRateLimitTable(rateLimitMap, ip, now)
    /\ noSweepMap' = checkRateLimitTable(noSweepMap, ip, now)
    /\ last' = Event("check", ip, checkRateLimitReturns(rateLimitMap, ip, now))
    /\ log' = [log EXCEPT ![ip] = Append(@, LogEntry(ip))]
    /\ UNCHANGED <<now, advances, req, started, served, twinMap, sanitized>>

CheckRateLimit(ip) == TotalCalls < MaxCalls /\ CheckRateLimitRuns(ip)

\* one run of the interval callback
SweepRuns ==
    /\ rateLimitMap' = SweepTable(rateLimitMap, now)
    /\ UNCHANGED <<now, advances, noSweepMap, log, req, started, served, twinMap, sanitized>>

\* Date.now() moves on
ClockAdvances(d) ==
    /\ advances < MaxAdvances
    /\ now' = now + d
    /\ advances' = advances + 1
    /\ UNCHANGED <<rateLimitMap, noSweepMap, log, req, started, served, twinMap, sanitized>>

\* the same two, noted as the latest event
Sweep == SweepRuns /\ last' = Event("sweep", "", TRUE)

Tick(d) == ClockAdvances(d) /\ last' = Event("tick", "", TRUE)

NextLimiter ==
    \/ \E ip \in Clients : CheckRateLimit(ip)
    \/ Sweep
    \/ \E d \in ClockSteps : Tick(d)

SpecLimiter == InitLimiter /\ [][NextLimiter]_vars

(***************************************************************************)
(* JavaScript values as the handler sees them.  A string is a sequence of  *)
(* one-character strings; a number is kept in hundredths (12000 is 120,    *)
(* 1999 is 19.99).  An array holds strings.  "a_ogonek" stands for the one  *)
(* letter of 'istniejacy' outside ASCII.                                   *)
(***************************************************************************)
Undefined == [t |-> "undefined"]
Null == [t |-> "null"]
Str(s) == [t |-> "string", s |-> s]
Num(n) == [t |-> "number", n |-> n]
Arr(a) == [t |-> "array", a |-> a]
\* a decoded JSON object with the own properties f
Obj(f) == [t |-> "record", f |-> f]

Digits == {"0", "1", "2", "3", "4", "5", "6", "7", "8", "9"}
WhiteSpace == {" ", "\t", "\n"}

DigitValue(ch) ==
    CASE ch = "0" -> 0 [] ch = "1" -> 1 [] ch = "2" -> 2 [] ch = "3" -> 3
      [] ch = "4" -> 4 [] ch = "5" -> 5 [] ch = "6" -> 6 [] ch = "7" -> 7
      [] ch = "8" -> 8 [] ch = "9" -> 9

DigitChar(d) ==
    CASE d = 0 -> "0" [] d = 1 -> "1" [] d = 2 -> "2" [] d = 3 -> "3"
      [] d = 4 -> "4" [] d = 5 -> "5" [] d = 6 -> "6" [] d = 7 -> "7"
      [] d = 8 -> "8" [] d = 9 -> "9"

\* the truthiness test of !x and x || y
Truthy(v) ==
    CASE v.t = "undefined" -> FALSE
      [] v.t = "null" -> FALSE
      [] v.t = "string" -> v.s # <<>>
      [] v.t = "number" -> v.n # 0
      [] OTHER -> TRUE

\* data.key: TypeError on null and undefined, the own property of an object,
\* undefined on every other value (none of the keys read is a property of a
\* string, a number or an array)
CanReadProperties(data) == data.t \notin {"null", "undefined"}

Get(data, key) ==
    IF data.t = "record" /\ key \in DOMAIN data.f THEN data.f[key] ELSE Undefined

RECURSIVE NatToString(_)
NatToString(n) ==
    IF n < 10 THEN <<DigitChar(n)>>
    ELSE NatToString(n \div 10) \o <<DigitChar(n % 10)>>

RECURSIVE JoinStrings(_, _)
JoinStrings(strs, sep) ==
    IF strs = <<>> THEN <<>>
    ELSE IF Len(strs) = 1 THEN strs[1]
    ELSE strs[1] \o sep \o JoinStrings(Tail(strs), sep)

\* ToString of a number kept in hundredths
NumberToString(n) ==
    LET m == IF n < 0 THEN -n ELSE n
        frac == m % 100
        fracStr == IF frac = 0 THEN <<>>
                   ELSE IF frac % 10 = 0 THEN <<".", DigitChar(frac \div 10)>>
                   ELSE <<".", DigitChar(frac \div 10), DigitChar(frac % 10)>>
    IN (IF n < 0 THEN <<"-">> ELSE <<>>) \o NatToString(m \div 100) \o fracStr

\* the ToString conversion that parseFloat and RegExp.test apply to their argument
JSToString(v) ==
    CASE v.t = "string" -> v.s
      [] v.t = "undefined" -> <<"u", "n", "d", "e", "f", "i", "n", "e", "d">>
      [] v.t = "null" -> <<"n", "u", "l", "l">>
      [] v.t = "number" -> NumberToString(v.n)
      [] v.t = "array" -> JoinStrings(v.a, <<",">>)
      [] OTHER -> <<"[", "o", "b", "j", "e", "c", "t", " ", "O", "b", "j", "e", "c", "t", "]">>

\* the one element of a singleton set
Only(S) == CHOOSE x \in S : TRUE

\* String.prototype.trim
LeadingWhiteSpace(s) ==
    CHOOSE n \in 0..Len(s) :
        /\ \A i \in 1..n : s[i] \in WhiteSpace
        /\ n = Len(s) \/ s[n + 1] \notin WhiteSpace

TrailingWhiteSpace(s) ==
    CHOOSE n \in 0..Len(s) :
        /\ \A i \in (Len(s) - n + 1)..Len(s) : s[i] \in WhiteSpace
        /\ n = Len(s) \/ s[Len(s) - n] \notin WhiteSpace

Trim(str) ==
    Only({IF LeadingWhiteSpace(s) = Len(s) THEN <<>>
          ELSE SubSeq(s, LeadingWhiteSpace(s) + 1, Len(s) - TrailingWhiteSpace(s)) :
          s \in {str}})

\* the number of leading digits of s
DigitPrefix(s) ==
    CHOOSE n \in 0..Len(s) :
        /\ \A i \in 1..n : s[i] \in Digits
        /\ n = Len(s) \/ s[n + 1] \notin Digits

RECURSIVE DigitsToNat(_)
DigitsToNat(s) ==
    IF s = <<>> THEN 0
    ELSE 10 * DigitsToNat(SubSeq(s, 1, Len(s) - 1)) + DigitValue(s[Len(s)])

Drop(s, n) == SubSeq(s, n + 1, Len(s))

\* an unsigned decimal literal at the start of s: digits, then a fraction
ParseUnsigned(s, neg) ==
    Only({Only({
        IF ni = 0 /\ fracAll = <<>>
            THEN [nan |-> TRUE, neg |-> FALSE, c |-> 0, more |-> FALSE]
        ELSE [nan |-> FALSE,
              neg |-> neg,
              c |-> 100 * DigitsToNat(SubSeq(s, 1, ni))
                    + DigitsToNat(SubSeq(fracAll \o <<"0", "0">>, 1, 2)),
              more |-> \E i \in 3..Len(fracAll) : fracAll[i] # "0"] :
        fracAll \in {IF ni < Len(s) /\ s[ni + 1] = "."
                        THEN SubSeq(s, ni + 2, ni + 1 + DigitPrefix(Drop(s, ni + 1)))
                        ELSE <<>>}}) :
        ni \in {DigitPrefix(s)}})

\* parseFloat: the longest decimal literal at the start of the trimmed string
\* (sign, digits, fraction; no input of the model uses an exponent or Infinity).
\* Result: nan, or the magnitude in hundredths rounded down (c), whether digits
\* beyond the hundredths are non-zero (more), and the sign (neg).
parseFloat(v) ==
    Only({Only({
        IF s0 # <<>> /\ s0[1] \in {"+", "-"}
            THEN ParseUnsigned(Tail(s0), s0[1] = "-")
        ELSE ParseUnsigned(s0, FALSE) :
        s0 \in {Drop(str, LeadingWhiteSpace(str))}}) :
        str \in {JSToString(v)}})

\* x < lo and x > hi for a parsed number x and whole numbers lo > 0, hi > 0
LessThan(x, lo) == x.neg \/ x.c < 100 * lo
GreaterThan(x, hi) == ~x.neg /\ (x.c > 100 * hi \/ (x.c = 100 * hi /\ x.more))

(***************************************************************************)
(* Validation helpers and sanitize (lines 42-53).                          *)
(***************************************************************************)
\* [^\s@]+
IsNonSpaceNonAtRun(s) == s # <<>> /\ \A i \in 1..Len(s) : s[i] \notin WhiteSpace \cup {"@"}

\* /^[^\s@]+@[^\s@]+\.[^\s@]+$/.test(email)
validateEmail(email) ==
    \E s \in {JSToString(email)} :
    \E i, j \in 1..Len(s) :
        /\ i < j
        /\ s[i] = "@"
        /\ s[j] = "."
        /\ IsNonSpaceNonAtRun(SubSeq(s, 1, i - 1))
        /\ IsNonSpaceNonAtRun(SubSeq(s, i + 1, j - 1))
        /\ IsNonSpaceNonAtRun(SubSeq(s, j + 1, Len(s)))

\* phone.replace and location.trim exist on strings only: TypeError otherwise
HasStringMethods(v) == v.t = "string"

MIN_PHONE_DIGITS == 9

\* phone.replace(/\D/g, '').length >= 9, phone a string
validatePhone(phone) ==
    \E s \in {phone.s} :
        Cardinality({i \in 1..Len(s) : s[i] \in Digits}) >= MIN_PHONE_DIGITS

SANITIZE_MAX_LENGTH == 2000

\* str.trim().slice(0, 2000)
Slice(s, n) == IF Len(s) <= n THEN s ELSE SubSeq(s, 1, n)

\* line 52, mutated: the slice is taken before the trim
TrimSliceTrimsLast(str, limit) == Trim(Slice(str, limit))

\* line 52 with the length limit as a parameter
TrimSlice(str, limit) == Slice(Trim(str), limit)

sanitize(str) == TrimSlice(str, SANITIZE_MAX_LENGTH)

(***************************************************************************)
(* The POST handler (lines 236-344).                                       *)
(***************************************************************************)
\* sample addresses and field values
BusinessInbox == <<"b", "@", "x", ".", "y">>
SenderAddress == <<"s", "@", "x", ".", "y">>
ReplyAddress == <<"r", "@", "x", ".", "y">>
ApiKey == <<"k">>
Nowy == <<"n", "o", "w", "y">>
Istniejacy == <<"i", "s", "t", "n", "i", "e", "j", "a_ogonek", "c", "y">>
GoodEmail == <<"a", "@", "b", ".", "c">>
GoodPhone == <<"1", "2", "3", " ", "4", "5", "6", "-", "7", "8", "9">>

\* import.meta.env as read by one request
Env(key, to, from, replyTo) ==
    [RESEND_API_KEY |-> key, LEAD_TO_EMAIL |-> to,
     LEAD_FROM_EMAIL |-> from, LEAD_REPLY_TO_EMAIL |-> replyTo]

Envs ==
    {Env(Str(ApiKey), Str(BusinessInbox), Str(SenderAddress), Undefined),
     Env(Str(ApiKey), Str(BusinessInbox), Str(SenderAddress), Str(ReplyAddress)),
     Env(Undefined, Str(BusinessInbox), Str(SenderAddress), Undefined),
     Env(Str(ApiKey), Str(<<>>), Str(SenderAddress), Undefined),
     Env(Str(ApiKey), Str(BusinessInbox), Undefined, Str(ReplyAddress))}

\* clientAddress and the x-forwarded-for header; "" is an absent or empty value
\* (the header, when a proxy sets it, names the client clientAddress names)
ClientAddresses == {"", "ip1"}
ForwardedFor == {"", "ip1"}

\* line 251: clientAddress || request.headers.get('x-forwarded-for') || 'unknown'
ResolveIp(clientAddress, xff) ==
    IF clientAddress # "" THEN clientAddress
    ELSE IF xff # "" THEN xff
    ELSE "unknown"

\* the outcome of request.json(): a rejection, or the decoded value
InvalidJson == [kind |-> "invalid"]
Json(v) == [kind |-> "json", value |-> v]

ValidFields ==
    [buildingType |-> Str(Nowy), area |-> Str(<<" ", "1", "2", "0">>),
     location |-> Str(<<"m", "a", " ">>), email |-> Str(GoodEmail),
     phone |-> Str(GoodPhone)]

With(f, key, v) == [k \in (DOMAIN f) \cup {key} |-> IF k = key THEN v ELSE f[k]]

Bodies ==
    {InvalidJson,
     Json(Null),
     Json(Obj(ValidFields)),
     Json(Obj(With(ValidFields, "area", Num(12000)))),
     Json(Obj(With(ValidFields, "phone", Num(123456789)))),
     Json(Obj(With(ValidFields, "email", Str(<<"a", "@", "b">>)))),
     Json(Obj([notes |-> Str(<<"x">>)]))}

\* line 242
ConfigOk(env) ==
    /\ Truthy(env.RESEND_API_KEY)
    /\ Truthy(env.LEAD_TO_EMAIL)
    /\ Truthy(env.LEAD_FROM_EMAIL)

\* new Response(JSON.stringify(body), {status, headers: application/json})
Response(status, body) == [status |-> status, body |-> body]
NoResponse == Response(0, [none |-> TRUE])
ErrorBody(pieces) == [error |-> pieces]

ConfigErrorResponse ==
    Response(500, ErrorBody(<<"Konfiguracja serwera nieprawidlowa. Prosze sprobowac pozniej.">>))
RateLimitResponse ==
    Response(429, ErrorBody(<<"Zbyt wiele zgloszen. Prosze sprobowac za chwile.">>))
ParseErrorResponse ==
    Response(400, ErrorBody(<<"Nieprawidlowe dane.">>))
DeliveryErrorResponse ==
    Response(500, ErrorBody(<<"Nie udalo sie wyslac zgloszenia. Prosze sprobowac ponownie.">>))
SuccessResponse == Response(200, [success |-> TRUE])

\* errors.join('. ') as the pieces of the joined string
RECURSIVE Join(_, _)
Join(msgs, sep) ==
    IF Len(msgs) <= 1 THEN msgs
    ELSE <<msgs[1], sep>> \o Join(Tail(msgs), sep)

ValidationErrorResponse(errors) == Response(400, ErrorBody(Join(errors, ". ")))

MIN_AREA == 20
MAX_AREA == 2000

BuildingTypes == {Str(Nowy), Str(Istniejacy)}

\* lines 273-292: the five rules; each adds its message when it fails
BuildingTypeFails(data) ==
    \E buildingType \in {Get(data, "buildingType")} :
        ~Truthy(buildingType) \/ buildingType \notin BuildingTypes

AreaFails(data) ==
    \E area \in {parseFloat(Get(data, "area"))} :
        area.nan \/ LessThan(area, MIN_AREA) \/ GreaterThan(area, MAX_AREA)

LocationFails(data) ==
    \E location \in {Get(data, "location")} :
        ~Truthy(location) \/ (HasStringMethods(location) /\ Trim(location.s) = <<>>)

EmailFails(data) ==
    \E email \in {Get(data, "email")} :
        ~Truthy(email) \/ ~validateEmail(email)

PhoneFails(data) ==
    \E phone \in {Get(data, "phone")} :
        ~Truthy(phone) \/ (HasStringMethods(phone) /\ ~validatePhone(phone))

ValidationErrors(data) ==
    (IF BuildingTypeFails(data) THEN <<"Nieprawidlowy typ budynku">> ELSE <<>>)
    \o (IF AreaFails(data) THEN <<"Nieprawidlowa powierzchnia">> ELSE <<>>)
    \o (IF LocationFails(data) THEN <<"Brak wojewodztwa">> ELSE <<>>)
    \o (IF EmailFails(data) THEN <<"Nieprawidlowy adres email">> ELSE <<>>)
    \o (IF PhoneFails(data) THEN <<"Nieprawidlowy numer telefonu">> ELSE <<>>)

\* a TypeError raised while the rules run: data.buildingType on null (line 273),
\* location.trim on a truthy value that is no string (line 282), phone.replace
\* on a truthy value that is no string (lines 290, 47)
ValidationThrows(data) ==
    \/ ~CanReadProperties(data)
    \/ \E location \in {Get(data, "location")} :
            Truthy(location) /\ ~HasStringMethods(location)
    \/ \E phone \in {Get(data, "phone")} :
            Truthy(phone) /\ ~HasStringMethods(phone)

\* line 294, mutated: a single error passes
ShouldRejectOnlySeveral(errors) == Len(errors) > 1

\* line 294: errors.length > 0
ShouldReject(errors) == Len(errors) > 0

\* lines 302-307: only the string-valued entries survive, each sanitized
SanitizeData(data) ==
    [k \in {key \in DOMAIN data.f : data.f[key].t = "string"} |-> sanitize(data.f[k].s)]

\* sanitizedData.key
Field(sd, key) == IF key \in DOMAIN sd THEN Str(sd[key]) ELSE Undefined

(***************************************************************************)
(* formatLeadEmail and formatLeadHtml (lines 56-212).  A message is the    *)
(* sequence of its pieces: the lines joined by formatLeadEmail, the        *)
(* elements written by formatLeadHtml.  Labels are in ASCII; the time of   *)
(* the closing line is left out.                                           *)
(***************************************************************************)
Piece(kind, label, text) == [kind |-> kind, label |-> label, text |-> text]

\* ${data.key} inside a template literal
Shown(data, key) == JSToString(Field(data, key))

\* if (data.key)
Given(data, key) == Truthy(Field(data, key))

\* lines 81-84 and 168-171, 89-92 and 181-184: the value with its optional detail
WithDetail(data, key, detailKey, unit) ==
    IF Given(data, detailKey)
        THEN Shown(data, key) \o <<" ", "(">> \o Shown(data, detailKey) \o <<" ">> \o unit \o <<")">>
    ELSE Shown(data, key)

\* notes.replace(/\n/g, '<br>')
BreakLines(s) == [i \in 1..Len(s) |-> IF s[i] = "\n" THEN "<br>" ELSE s[i]]

\* lines 56-107
formatLeadEmail(data) ==
    <<Piece("h2", "Nowe zgloszenie - Argentech", <<>>),
      Piece("blank", "", <<>>),
      Piece("h3", "Dane kontaktowe", <<>>),
      Piece("row", "Email", Shown(data, "email")),
      Piece("row", "Telefon", Shown(data, "phone")),
      Piece("blank", "", <<>>),
      Piece("h3", "Informacje o budynku", <<>>),
      Piece("row", "Typ budynku", Shown(data, "buildingType")),
      Piece("row", "Powierzchnia", Shown(data, "area") \o <<" ", "m", "2">>),
      Piece("row", "Wojewodztwo", Shown(data, "location"))>>
    \o (IF Given(data, "currentHeating")
           THEN <<Piece("row", "Aktualne zrodlo ciepla", Shown(data, "currentHeating"))>>
           ELSE <<>>)
    \o (IF Given(data, "installation")
           THEN <<Piece("row", "Instalacja grzewcza", Shown(data, "installation"))>>
           ELSE <<>>)
    \o <<Piece("blank", "", <<>>),
         Piece("h3", "Dodatkowe informacje", <<>>)>>
    \o (IF Given(data, "hasPV")
           THEN <<Piece("row", "Fotowoltaika",
                        WithDetail(data, "hasPV", "pvPower", <<"k", "W", "p">>))>>
           ELSE <<>>)
    \o (IF Given(data, "hasStorage")
           THEN <<Piece("row", "Magazyn energii",
                        WithDetail(data, "hasStorage", "storageCapacity", <<"k", "W", "h">>))>>
           ELSE <<>>)
    \o (IF Given(data, "notes")
           THEN <<Piece("blank", "", <<>>),
                  Piece("h3", "Uwagi od klienta", <<>>),
                  Piece("text", "", Shown(data, "notes"))>>
           ELSE <<>>)
    \o <<Piece("blank", "", <<>>),
         Piece("rule", "", <<>>),
         Piece("stamp", "Zgloszenie z", <<>>)>>

\* lines 109-212
formatLeadHtml(data) ==
    <<Piece("div", "", <<>>),
      Piece("h2", "Nowe zgloszenie - Argentech", <<>>),
      Piece("h3", "Dane kontaktowe", <<>>),
      Piece("table", "", <<>>),
      Piece("row", "Email", Shown(data, "email")),
      Piece("row", "Telefon", Shown(data, "phone")),
      Piece("/table", "", <<>>),
      Piece("h3", "Informacje o budynku", <<>>),
      Piece("table", "", <<>>),
      Piece("row", "Typ budynku", Shown(data, "buildingType")),
      Piece("row", "Powierzchnia", Shown(data, "area") \o <<" ", "m", "2">>),
      Piece("row", "Wojewodztwo", Shown(data, "location"))>>
    \o (IF Given(data, "currentHeating")
           THEN <<Piece("row", "Aktualne zrodlo ciepla", Shown(data, "currentHeating"))>>
           ELSE <<>>)
    \o (IF Given(data, "installation")
           THEN <<Piece("row", "Instalacja grzewcza", Shown(data, "installation"))>>
           ELSE <<>>)
    \o <<Piece("/table", "", <<>>)>>
    \o (IF Given(data, "hasPV") \/ Given(data, "hasStorage")
           THEN <<Piece("h3", "Dodatkowe informacje", <<>>),
                  Piece("table", "", <<>>)>>
                \o (IF Given(data, "hasPV")
                       THEN <<Piece("row", "Fotowoltaika",
                                    WithDetail(data, "hasPV", "pvPower", <<"k", "W", "p">>))>>
                       ELSE <<>>)
                \o (IF Given(data, "hasStorage")
                       THEN <<Piece("row", "Magazyn energii",
                                    WithDetail(data, "hasStorage", "storageCapacity",
                                               <<"k", "W", "h">>))>>
                       ELSE <<>>)
                \o <<Piece("/table", "", <<>>)>>
           ELSE <<>>)
    \o (IF Given(data, "notes")
           THEN <<Piece("h3", "Uwagi od klienta", <<>>),
                  Piece("p", "", BreakLines(Shown(data, "notes")))>>
           ELSE <<>>)
    \o <<Piece("hr", "", <<>>),
         Piece("stamp", "Zgloszenie z", <<>>),
         Piece("/div", "", <<>>)>>

\* lines 315-322: the message to the business inbox
BusinessMessage(env, sd) ==
    [kind |-> "business",
     from |-> env.LEAD_FROM_EMAIL,
     to |-> env.LEAD_TO_EMAIL,
     replyTo |-> Field(sd, "email"),
     subject |-> <<Field(sd, "buildingType"), Field(sd, "area"), Field(sd, "location")>>,
     text |-> formatLeadEmail(sd),
     html |-> formatLeadHtml(sd),
     outcome |-> "pending"]

\* lines 311, 325-331: the confirmation to the submitter
ConfirmationMessage(env, sd) ==
    [kind |-> "confirmation",
     from |-> env.LEAD_FROM_EMAIL,
     to |-> Field(sd, "email"),
     replyTo |-> IF Truthy(env.LEAD_REPLY_TO_EMAIL) THEN env.LEAD_REPLY_TO_EMAIL
                 ELSE Field(sd, "email"),
     subject |-> <<>>,
     text |-> <<>>,
     html |-> <<Piece("div", "", <<>>), Piece("h2", "Dziekujemy za zgloszenie", <<>>),
                Piece("/div", "", <<>>)>>,
     outcome |-> "pending"]

\* lines 315-325, mutated: both sends issued at once (as with Promise.all)
SendsIssuedFirstBoth(env, sd) == <<BusinessMessage(env, sd), ConfirmationMessage(env, sd)>>

\* lines 315-322: the one send issued before the handler first awaits delivery
SendsIssuedFirst(env, sd) == <<BusinessMessage(env, sd)>>

\* lines 313, 337, mutated: the rejection of an awaited send goes unnoticed
CaughtNever(outcome) == FALSE

\* lines 313, 337: a rejected await inside try lands in catch
Caught(outcome) == outcome = "rejected"

SendOutcomes == {"resolved", "rejected"}

\* the request handlers that may be in flight at once, and the state of one
Slots == {1, 2}

IdleRequest ==
    [pc |-> "idle", env |-> Env(Undefined, Undefined, Undefined, Undefined),
     body |-> InvalidJson, admitted |-> FALSE, errors |-> <<>>,
     sanitizedData |-> <<>>, trace |-> <<>>, sends |-> <<>>, resp |-> NoResponse]

\* lines 238-257, mutated: the rate check runs before the config check
StepsBeforeParseRateFirst(map, t, env, ip) ==
    IF ~checkRateLimitReturns(map, ip, t)
        THEN [map |-> checkRateLimitTable(map, ip, t), admitted |-> FALSE,
              trace |-> <<"RateCheck", "Respond">>, resp |-> RateLimitResponse]
    ELSE IF ~ConfigOk(env)
        THEN [map |-> checkRateLimitTable(map, ip, t), admitted |-> TRUE,
              trace |-> <<"RateCheck", "ConfigCheck", "Respond">>,
              resp |-> ConfigErrorResponse]
    ELSE [map |-> checkRateLimitTable(map, ip, t), admitted |-> TRUE,
          trace |-> <<"RateCheck", "ConfigCheck">>, resp |-> NoResponse]

\* lines 238-257, mutated: the rate check is left for later
StepsBeforeParseSkipsRateCheck(map, t, env, ip) ==
    IF ~ConfigOk(env)
        THEN [map |-> map, admitted |-> FALSE,
              trace |-> <<"ConfigCheck", "Respond">>, resp |-> ConfigErrorResponse]
    ELSE [map |-> map, admitted |-> TRUE,
          trace |-> <<"ConfigCheck", "RateCheck">>, resp |-> NoResponse]

\* lines 238-257: what POST does before it first awaits
StepsBeforeParse(map, t, env, ip) ==
    IF ~ConfigOk(env)
        THEN [map |-> map, admitted |-> FALSE,
              trace |-> <<"ConfigCheck", "Respond">>, resp |-> ConfigErrorResponse]
    ELSE IF ~checkRateLimitReturns(map, ip, t)
        THEN [map |-> checkRateLimitTable(map, ip, t), admitted |-> FALSE,
              trace |-> <<"ConfigCheck", "RateCheck", "Respond">>,
              resp |-> RateLimitResponse]
    ELSE [map |-> checkRateLimitTable(map, ip, t), admitted |-> TRUE,
          trace |-> <<"ConfigCheck", "RateCheck">>, resp |-> NoResponse]

\* POST is called for a new request and runs to its first await (line 262) or
\* to an early response
PostRuns(r, env, clientAddress, xff) ==
    /\ req[r].pc = "idle"
    /\ \A q \in Slots : q < r => req[q].pc # "idle"
    /\ started' = started + 1
    /\ LET ip == ResolveIp(clientAddress, xff)
           s == StepsBeforeParse(rateLimitMap, now, env, ip)
       IN /\ rateLimitMap' = s.map
          /\ req' = [req EXCEPT ![r] =
                [IdleRequest EXCEPT
                    !.pc = IF s.resp = NoResponse THEN "json" ELSE "done",
                    !.env = env,
                    !.admitted = s.admitted, !.trace = s.trace, !.resp = s.resp]]
    /\ UNCHANGED <<now, advances, noSweepMap, last, served, twinMap, sanitized>>

POST(r, env, clientAddress, xff) ==
    /\ started < MaxRequests
    /\ PostRuns(r, env, clientAddress, xff)
    /\ UNCHANGED log

\* request.json() settles with the body the request turns out to carry; the
\* handler runs to the await of the first send (line 315), to a response, or to
\* an exception that leaves it
JsonSettles(r, body) ==
    /\ req[r].pc = "json"
    /\ \E q \in {[req[r] EXCEPT !.body = body]} :
        IF body.kind = "invalid"
            THEN req' = [req EXCEPT ![r] =
                    [q EXCEPT !.pc = "done", !.resp = ParseErrorResponse,
                              !.trace = @ \o <<"Parse", "Respond">>]]
        ELSE IF ValidationThrows(body.value)
            THEN req' = [req EXCEPT ![r] =
                    [q EXCEPT !.pc = "fault", !.trace = @ \o <<"Parse", "Validate">>]]
        ELSE \E errors \in {ValidationErrors(body.value)} :
            IF ShouldReject(errors)
                THEN req' = [req EXCEPT ![r] =
                        [q EXCEPT !.pc = "done", !.errors = errors,
                                  !.resp = ValidationErrorResponse(errors),
                                  !.trace = @ \o <<"Parse", "Validate", "Respond">>]]
            ELSE \E sd \in {SanitizeData(body.value)} :
                req' = [req EXCEPT ![r] =
                        [q EXCEPT !.pc = "send1", !.errors = errors,
                                  !.sanitizedData = sd,
                                  !.sends = SendsIssuedFirst(q.env, sd),
                                  !.trace = @ \o <<"Parse", "Validate", "Sanitize", "Send">>]]
    /\ UNCHANGED <<rateLimitMap, now, advances, noSweepMap, log, last, started,
                   served, twinMap, sanitized>>

Settle(sends, i, outcome) == [sends EXCEPT ![i].outcome = outcome]

\* the first send settles; the handler issues the second (line 325) or responds
BusinessSendSettles(r, outcome) ==
    /\ req[r].pc = "send1"
    /\ LET q == req[r] IN
       req' = [req EXCEPT ![r] =
            IF Caught(outcome)
                THEN [q EXCEPT !.pc = "done", !.resp = DeliveryErrorResponse,
                               !.sends = Settle(@, 1, outcome),
                               !.trace = @ \o <<"Respond">>]
            ELSE [q EXCEPT !.pc = "send2",
                           !.sends = Append(Settle(@, 1, outcome),
                                            ConfirmationMessage(q.env, q.sanitizedData)),
                           !.trace = @ \o <<"Send">>]]
    /\ UNCHANGED <<rateLimitMap, now, advances, noSweepMap, log, last, started,
                   served, twinMap, sanitized>>

\* the second send settles; the handler responds
ConfirmationSendSettles(r, outcome) ==
    /\ req[r].pc = "send2"
    /\ LET q == req[r] IN
       req' = [req EXCEPT ![r] =
            [q EXCEPT !.pc = "done",
                      !.resp = IF Caught(outcome) THEN DeliveryErrorResponse
                               ELSE SuccessResponse,
                      !.sends = Settle(@, Len(@), outcome),
                      !.trace = @ \o <<"Respond">>]]
    /\ UNCHANGED <<rateLimitMap, now, advances, noSweepMap, log, last, started,
                   served, twinMap, sanitized>>

\* the response (or the exception) has gone to the caller; the handler is over
FinishRuns(r) ==
    /\ req[r].pc \in {"done", "fault"}
    /\ req' = [req EXCEPT ![r] = IdleRequest]
    /\ UNCHANGED <<rateLimitMap, now, advances, noSweepMap, log, last, started,
                   twinMap, sanitized>>

Finish(r) == FinishRuns(r) /\ UNCHANGED served

\* tables the program can hold at time 0: empty, or ip1 has made 5 calls already
WarmTables ==
    {EmptyMap, [k \in {"ip1"} |-> [count |-> RATE_LIMIT_MAX, timestamp |-> 0]]}

Init ==
    /\ rateLimitMap \in WarmTables
    /\ noSweepMap = EmptyMap
    /\ now = 0
    /\ advances = 0
    /\ log = [c \in Clients |-> <<>>]
    /\ last = Event("none", "", TRUE)
    /\ req = [r \in Slots |-> IdleRequest]
    /\ started = 0
    /\ served = NoneServed
    /\ twinMap = EmptyMap
    /\ sanitized = NoSanitizeCall

\* While requests are handled the clock passes a whole window at a time, one
\* time fewer than MaxAdvances allows; SpecLimiter places calls on and around
\* the window boundary.
Next ==
    \/ \E r \in Slots, env \in Envs, ca \in ClientAddresses, xff \in ForwardedFor :
          POST(r, env, ca, xff)
    \/ \E r \in Slots, body \in Bodies : JsonSettles(r, body)
    \/ \E r \in Slots, outcome \in SendOutcomes : BusinessSendSettles(r, outcome)
    \/ \E r \in Slots, outcome \in SendOutcomes : ConfirmationSendSettles(r, outcome)
    \/ \E r \in Slots : Finish(r)
    \/ SweepRuns /\ UNCHANGED last
    \/ /\ advances + 1 < MaxAdvances
       /\ ClockAdvances(RATE_LIMIT_WINDOW + 1)
       /\ UNCHANGED last

Spec == Init /\ [][Next]_vars

(***************************************************************************)
(* Properties of the rate limiter (checked under SpecLimiter).             *)
(***************************************************************************)
Calls(c) == 1..Len(log[c])

\* No closed interval of RATE_LIMIT_WINDOW ms holds more than RATE_LIMIT_MAX calls
\* of client c: any RATE_LIMIT_MAX + 1 of its calls span more than the window.
\* The interval is closed because the code counts a call made exactly
\* RATE_LIMIT_WINDOW ms after windowStart in the same window (line 16 uses >).
AtMostMaxPerWindow(c) ==
    \A i, j \in Calls(c) :
        j - i >= RATE_LIMIT_MAX => log[c][j].t - log[c][i].t > RATE_LIMIT_WINDOW

\* C1: a client none of whose 60-second windows (60 000 ms, end points included)
\* holds more than 5 of its calls has every call admitted, whatever the other
\* client and the sweep do.
C1_UnderLimitAlwaysAdmitted ==
    \A c \in Clients : AtMostMaxPerWindow(c) => \A i \in Calls(c) : log[c][i].ok

\* C1 witness: a client made more than 5 calls over several windows, never more
\* than 5 in one, and all were admitted.
C1_Witness ==
    /\ Len(log["ip1"]) > RATE_LIMIT_MAX
    /\ AtMostMaxPerWindow("ip1")
    /\ \A i \in Calls("ip1") : log["ip1"][i].ok

\* the calls of c admitted against the window that started at ws
AdmittedInWindow(c, ws) == {i \in Calls(c) : log[c][i].ok /\ log[c][i].ts = ws}

\* the step is a call checkRateLimit(c)
IsCallOf(c) == Len(log'[c]) = Len(log[c]) + 1

\* C2: once 5 calls of a client were admitted in one window, a further call of
\* that client inside the window is rejected; a call made when windowStart is
\* older than 60 000 ms is admitted and leaves the record {count: 1, windowStart: now}.
C2_SixthRejectedThenReadmitted ==
    [][\A c \in Clients :
        (IsCallOf(c) /\ log[c] # <<>>) =>
            LET ws == log[c][Len(log[c])].ts IN
            /\ (Cardinality(AdmittedInWindow(c, ws)) >= 5
                    /\ now - ws <= RATE_LIMIT_WINDOW)
                => ~last'.ok
            /\ (now - ws > RATE_LIMIT_WINDOW)
                => /\ last'.ok
                   /\ c \in DOMAIN rateLimitMap'
                   /\ rateLimitMap'[c] = [count |-> 1, timestamp |-> now]]_vars

\* C2 witness: a client was rejected in a window and admitted after it elapsed.
C2_Witness ==
    \E c \in Clients : \E i, j \in Calls(c) :
        /\ i < j
        /\ ~log[c][i].ok
        /\ log[c][j].ok
        /\ log[c][j].t - log[c][i].ts > RATE_LIMIT_WINDOW
        /\ c \in DOMAIN rateLimitMap
        /\ rateLimitMap[c] = [count |-> 1, timestamp |-> log[c][j].t]

\* client c made no call after time ts
NoCallSince(c, ts) == \A i \in Calls(c) : log[c][i].t <= ts

\* the clients that have made a call
ActiveClients == {c \in Clients : log[c] # <<>>}

\* C8 as stated: after a run of the sweep no record is left for which 60 seconds
\* or more have passed since windowStart with no new call of its client, and the
\* table never holds more records than there are clients sending traffic.
C8_AsStated ==
    /\ last.op = "sweep" =>
        \A c \in DOMAIN rateLimitMap :
            ~(now - rateLimitMap[c].timestamp >= RATE_LIMIT_WINDOW
                /\ NoCallSince(c, rateLimitMap[c].timestamp))
    /\ Cardinality(DOMAIN rateLimitMap) <= Cardinality(ActiveClients)

\* C8 amended: after a run of the sweep no record is left for which more than
\* 60 seconds have passed since windowStart with no new call of its client (a
\* record exactly 60 000 ms old stays), and the table never holds more records
\* than there are clients sending traffic.
C8_SweepRemovesExpired ==
    /\ last.op = "sweep" =>
        \A c \in DOMAIN rateLimitMap :
            ~(now - rateLimitMap[c].timestamp > RATE_LIMIT_WINDOW
                /\ NoCallSince(c, rateLimitMap[c].timestamp))
    /\ Cardinality(DOMAIN rateLimitMap) <= Cardinality(ActiveClients)

\* C8 witness: a sweep has just removed the record of a client that had been
\* silent for more than the window, and kept the record of the other client.
C8_Witness ==
    /\ last.op = "sweep"
    /\ \E c \in ActiveClients :
        /\ c \notin DOMAIN rateLimitMap
        /\ now - log[c][Len(log[c])].t > RATE_LIMIT_WINDOW
    /\ DOMAIN rateLimitMap # {}

\* C9: every call gets the decision it gets in the system that never sweeps.
C9_SweepTransparent ==
    \A c \in Clients : \A i \in Calls(c) : log[c][i].ok = log[c][i].okNoSweep

\* C9 witness: a call found its record deleted by the sweep, a later call of the
\* same client was rejected, and the other system made the same decisions.
C9_Witness ==
    \E c \in Clients : \E i, j \in Calls(c) :
        /\ i < j
        /\ log[c][i].gone
        /\ ~log[c][j].ok
        /\ ~log[c][j].okNoSweep

\* C10: a rejected call of checkRateLimit leaves the whole table as it was.
C10_RejectLeavesTable ==
    [][\A c \in Clients :
        (IsCallOf(c) /\ ~last'.ok) => rateLimitMap' = rateLimitMap]_vars

\* C10 witness: a call has just been rejected while the table also holds the
\* record of the other client.
C10_Witness ==
    /\ last.op = "check"
    /\ ~last.ok
    /\ rateLimitMap[last.ip].count = RATE_LIMIT_MAX
    /\ DOMAIN rateLimitMap = Clients

\* C15: every record of the rate-limit table has an integer count from 1 to 5.
C15_CountWithinLimit ==
    \A c \in DOMAIN rateLimitMap :
        /\ rateLimitMap[c].count \in Nat
        /\ 1 <= rateLimitMap[c].count
        /\ rateLimitMap[c].count <= 5

\* C15 witness: after admits, a rejection and a run of the sweep, one client's
\* record stands at 5 and the other's at 1.
C15_Witness ==
    /\ last.op = "sweep"
    /\ \E c, d \in DOMAIN rateLimitMap :
        /\ rateLimitMap[c].count = 5
        /\ \E i \in Calls(c) : ~log[c][i].ok
        /\ rateLimitMap[d].count = 1

(***************************************************************************)
(* Properties of the POST handler (checked under Spec).                    *)
(***************************************************************************)
Handled == {r \in Slots : req[r].pc # "idle"}

\* how often a step occurs in a trace
Occurrences(trace, step) == Cardinality({i \in 1..Len(trace) : trace[i] = step})

\* C3 as stated: every request has checkRateLimit called exactly once, before
\* any other step of the handler.
C3_AsStated ==
    \A r \in Handled :
        /\ Occurrences(req[r].trace, "RateCheck") = 1
        /\ req[r].trace[1] = "RateCheck"

\* C3 amended: every request starts with the config check; a request that has
\* the required configuration has checkRateLimit called exactly once, right
\* after the config check and before every other step; a request that lacks it
\* has checkRateLimit not called at all.
C3_RateCheckOnceAfterConfig ==
    \A r \in Handled :
        /\ req[r].trace[1] = "ConfigCheck"
        /\ IF ConfigOk(req[r].env)
              THEN /\ Occurrences(req[r].trace, "RateCheck") = 1
                   /\ req[r].trace[2] = "RateCheck"
              ELSE Occurrences(req[r].trace, "RateCheck") = 0

\* C3 witness: one request went through the rate check to its first send while
\* another ended at the config check.
C3_Witness ==
    \E r1, r2 \in Handled :
        /\ req[r1].trace = <<"ConfigCheck", "RateCheck", "Parse", "Validate", "Sanitize", "Send">>
        /\ req[r2].trace = <<"ConfigCheck", "Respond">>

AnySendRejected(r) == \E i \in 1..Len(req[r].sends) : req[r].sends[i].outcome = "rejected"

AllSendsResolved(r) == \A i \in 1..Len(req[r].sends) : req[r].sends[i].outcome = "resolved"

ValidBodies ==
    {b \in Bodies :
        /\ b.kind = "json"
        /\ ~ValidationThrows(b.value)
        /\ ValidationErrors(b.value) = <<>>}

\* the request carries a body that decodes and passes every rule
FullyValid(r) == req[r].body \in ValidBodies

\* C5: a fully valid, configured and admitted request has the business
\* notification sent first and the confirmation second, the second only once
\* the first has completed; when both succeed exactly these two sends were
\* made, and 200 {success: true} comes only after both have completed.
C5_TwoSendsInOrder ==
    \A r \in Handled :
        /\ Len(req[r].sends) <= 2
        /\ Len(req[r].sends) >= 1 => req[r].sends[1].kind = "business"
        /\ Len(req[r].sends) = 2 =>
            /\ req[r].sends[2].kind = "confirmation"
            /\ req[r].sends[1].outcome = "resolved"
        /\ req[r].resp = SuccessResponse =>
            /\ Len(req[r].sends) = 2
            /\ AllSendsResolved(r)
        /\ (req[r].pc = "done" /\ req[r].admitted /\ AllSendsResolved(r) /\ FullyValid(r)) =>
            /\ Len(req[r].sends) = 2
            /\ req[r].resp = SuccessResponse

\* C5 witness: a request was answered 200 after both sends resolved, while
\* another waits for its first send.
C5_Witness ==
    \E r1, r2 \in Handled :
        /\ req[r1].resp = SuccessResponse
        /\ req[r1].resp.status = 200
        /\ req[r2].pc = "send1"

\* the responses of the HTTP contract
IsContractResponse(resp) ==
    \/ resp \in {SuccessResponse, ConfigErrorResponse, RateLimitResponse,
                 ParseErrorResponse, DeliveryErrorResponse}
    \/ \E errors \in {ValidationErrors(b.value) : b \in Bodies \ {InvalidJson}} :
        errors # <<>> /\ resp = ValidationErrorResponse(errors)

\* C6: every request, whatever its body, ends with one of the six structured
\* responses; none ends with an exception leaving the handler.
C6_AlwaysStructuredResponse ==
    \A r \in Handled :
        /\ req[r].pc # "fault"
        /\ req[r].pc = "done" => IsContractResponse(req[r].resp)

EndedEarly(r) ==
    /\ req[r].pc = "done"
    /\ \/ req[r].resp \in {ConfigErrorResponse, RateLimitResponse}
       \/ req[r].resp.status = 400

\* C7: a send is issued only for a request that has the required
\* configuration, was admitted, decoded its body and has no validation error;
\* a request that ended at ConfigCheck, RateCheck, Parse or Validate issued none.
C7_NoSendBeforeChecksPass ==
    \A r \in Handled :
        /\ req[r].sends # <<>> =>
            /\ ConfigOk(req[r].env)
            /\ req[r].admitted
            /\ FullyValid(r)
        /\ EndedEarly(r) => req[r].sends = <<>>

\* C7 witness: one request has issued a send while another ended at the rate
\* check with 429.
C7_Witness ==
    \E r1, r2 \in Handled :
        /\ req[r1].sends # <<>>
        /\ req[r2].resp = RateLimitResponse
        /\ req[r2].sends = <<>>

\* C11: a request that lacks a required configuration value is answered at once
\* with the 500 server-configuration error; in that step the rate-limit table
\* stays as it was, the body is not read and no send is issued, and the only
\* thing the handler does afterwards is end.
C11_MissingConfigStopsAtOnce ==
    [][\A r \in Slots :
        /\ (req[r].pc = "idle" /\ req'[r].pc # "idle" /\ ~ConfigOk(req'[r].env)) =>
            /\ req'[r].pc = "done"
            /\ req'[r].resp = ConfigErrorResponse
            /\ req'[r].resp.status = 500
            /\ rateLimitMap' = rateLimitMap
            /\ req'[r].trace = <<"ConfigCheck", "Respond">>
            /\ req'[r].body = IdleRequest.body
            /\ req'[r].sends = <<>>
        /\ (req[r].pc # "idle" /\ ~ConfigOk(req[r].env)) =>
            req'[r] \in {req[r], IdleRequest}]_vars

\* C11 witness: a request without the sender address was answered with the
\* configuration error while an admitted request is in flight, and the table
\* holds the one record the admitted request made.
C11_Witness ==
    \E r1, r2 \in Handled :
        /\ ~Truthy(req[r1].env.LEAD_FROM_EMAIL)
        /\ req[r1].resp = ConfigErrorResponse
        /\ req[r1].sends = <<>>
        /\ req[r2].admitted
        /\ Cardinality(DOMAIN rateLimitMap) = 1
        /\ \A c \in DOMAIN rateLimitMap : rateLimitMap[c].count = 1

(***************************************************************************)
(* sanitize on its own (SpecSanitize): every short string over a small     *)
(* alphabet with the limit scaled down to ScaledLimit, and strings around  *)
(* 2000 characters long with the limit of the code.                        *)
(***************************************************************************)
SanitizeAlphabet == {" ", "\n", "a"}

ShortStrings == UNION {[1..n -> SanitizeAlphabet] : n \in 0..MaxLen}

\* a string of n characters, blank at the positions of blanks, "a" elsewhere
Padded(n, blanks) == [i \in 1..n |-> IF i \in blanks THEN " " ELSE "a"]

LongStrings ==
    {Padded(SANITIZE_MAX_LENGTH + k, blanks) :
        k \in {-1, 0, 1, 2},
        blanks \in {{}, {1}, {1, 2}, {SANITIZE_MAX_LENGTH},
                    {1, SANITIZE_MAX_LENGTH + 1}, {SANITIZE_MAX_LENGTH + 2}}}

\* one call of the function of line 52 with the given limit
SanitizeCalled(str, limit) ==
    /\ sanitized' = [str |-> str, limit |-> limit, result |-> TrimSlice(str, limit)]
    /\ UNCHANGED <<rateLimitMap, now, advances, noSweepMap, log, last, req, started,
                   served, twinMap>>

NextSanitize ==
    \/ \E str \in ShortStrings : SanitizeCalled(str, ScaledLimit)
    \/ \E str \in LongStrings : SanitizeCalled(str, SANITIZE_MAX_LENGTH)

SpecSanitize == InitLimiter /\ [][NextSanitize]_vars

NoOuterWhiteSpace(s) == s = <<>> \/ (s[1] \notin WhiteSpace /\ s[Len(s)] \notin WhiteSpace)

\* C14 as stated: the value returned by sanitize has at most 2000 characters
\* (the limit of the call) and neither leading nor trailing whitespace.
C14_AsStated ==
    /\ Len(sanitized.result) <= sanitized.limit
    /\ NoOuterWhiteSpace(sanitized.result)

\* C14 amended: the value returned by sanitize has at most 2000 characters (the
\* limit of the call) and no leading whitespace; it is the input without its
\* leading and trailing whitespace, cut to its first 2000 characters, so it has
\* no trailing whitespace whenever the input without its outer whitespace has
\* at most 2000 characters.
C14_TrimmedThenCut ==
    /\ Len(sanitized.result) <= sanitized.limit
    /\ sanitized.result # <<>> => sanitized.result[1] \notin WhiteSpace
    /\ \E a \in 0..Len(sanitized.str) :
        /\ \A k \in 1..a : sanitized.str[k] \in WhiteSpace
        /\ \E b \in a..Len(sanitized.str) :
            /\ \A k \in (b + 1)..Len(sanitized.str) : sanitized.str[k] \in WhiteSpace
            /\ NoOuterWhiteSpace(SubSeq(sanitized.str, a + 1, b))
            /\ IF b - a <= sanitized.limit
                  THEN /\ sanitized.result = SubSeq(sanitized.str, a + 1, b)
                       /\ NoOuterWhiteSpace(sanitized.result)
                  ELSE sanitized.result = SubSeq(sanitized.str, a + 1, a + sanitized.limit)

\* C14 witness: sanitize was given a string of more than 2000 characters that
\* starts with a blank, and returned exactly 2000 characters that end with one.
C14_Witness ==
    /\ sanitized.limit = SANITIZE_MAX_LENGTH
    /\ Len(sanitized.str) > SANITIZE_MAX_LENGTH
    /\ sanitized.str[1] \in WhiteSpace
    /\ Len(sanitized.result) = SANITIZE_MAX_LENGTH
    /\ sanitized.result[1] \notin WhiteSpace
    /\ sanitized.result[SANITIZE_MAX_LENGTH] \in WhiteSpace

(***************************************************************************)
(* One handler at a time, given many bodies (SpecSubmit): every            *)
(* combination of a valid, an invalid and a null value of the five         *)
(* required fields; the valid submission with every choice of optional     *)
(* fields; and bodies with values that are not strings.                    *)
(***************************************************************************)
RuleBodies ==
    {Json(Obj([buildingType |-> bt, area |-> ar, location |-> lo, email |-> em,
               phone |-> ph])) :
        bt \in {Str(Istniejacy), Str(<<"x">>), Null},
        ar \in {Str(<<" ", "1", "2", "0">>), Str(<<"1", "9", ".", "9", "9">>), Null},
        lo \in {Str(<<"m", "a", " ">>), Str(<<" ", " ">>), Null},
        em \in {Str(GoodEmail), Str(<<"a", "@", "b">>), Null},
        ph \in {Str(GoodPhone), Str(<<"1", "2", "3", "4", "5", "6", "7", "8">>), Null}}

\* a key the submission does not carry
Absent == [t |-> "absent"]

WithOptional(f, opt) ==
    [k \in (DOMAIN f) \cup {o \in DOMAIN opt : opt[o] # Absent} |->
        IF k \in DOMAIN opt /\ opt[k] # Absent THEN opt[k] ELSE f[k]]

Tak == Str(<<"t", "a", "k">>)
Blank == Str(<<" ">>)

OptionalBodies ==
    {Json(Obj(WithOptional(ValidFields,
            [currentHeating |-> ch, installation |-> ch, hasPV |-> pv, pvPower |-> pp,
             hasStorage |-> st, storageCapacity |-> sc, notes |-> nt]))) :
        ch \in {Absent, Str(<<"g", "a", "z">>)},
        pv \in {Absent, Blank, Tak},
        pp \in {Absent, Str(<<"5">>)},
        st \in {Absent, Blank, Tak},
        sc \in {Absent, Str(<<"1", "0">>)},
        nt \in {Absent, Blank, Str(<<"a", "\n", "b">>)}}

OtherBodies ==
    {InvalidJson,
     Json(Null),
     Json(Obj(With(ValidFields, "area", Num(12000)))),
     Json(Obj(With(ValidFields, "email", Arr(<<GoodEmail>>)))),
     Json(Obj(With(With(ValidFields, "buildingType", Str(<<"x">>)), "phone", Num(123456789))))}

SubmitBodies == RuleBodies \cup OptionalBodies \cup OtherBodies

\* environments with the required configuration
ConfiguredEnvs == {env \in Envs : ConfigOk(env)}

InitEmptyTable == Init /\ rateLimitMap = EmptyMap

NextSubmit ==
    \/ \E env \in ConfiguredEnvs : POST(1, env, "ip1", "")
    \/ \E body \in SubmitBodies : JsonSettles(1, body)
    \/ \E outcome \in SendOutcomes : BusinessSendSettles(1, outcome)
    \/ \E outcome \in SendOutcomes : ConfirmationSendSettles(1, outcome)
    \/ Finish(1)

SpecSubmit == InitEmptyTable /\ [][NextSubmit]_vars

(***************************************************************************)
(* Properties of validation, sanitization and the composed messages        *)
(* (checked under SpecSubmit).                                             *)
(***************************************************************************)
RuleMessages ==
    <<"Nieprawidlowy typ budynku", "Nieprawidlowa powierzchnia", "Brak wojewodztwa",
      "Nieprawidlowy adres email", "Nieprawidlowy numer telefonu">>

\* the rules, by their place in the fixed order, that the submitted data fails
FailingRules(data) ==
    {i \in 1..5 :
        CASE i = 1 -> BuildingTypeFails(data)
          [] i = 2 -> AreaFails(data)
          [] i = 3 -> LocationFails(data)
          [] i = 4 -> EmailFails(data)
          [] i = 5 -> PhoneFails(data)}

\* the k-th smallest element of a set of numbers
KthOf(S, k) == CHOOSE i \in S : Cardinality({j \in S : j < i}) = k - 1

\* one message per failing rule, in the fixed order, with ". " between them
ExpectedPieces(failing) ==
    [p \in 1..(2 * Cardinality(failing) - 1) |->
        IF p % 2 = 1 THEN RuleMessages[KthOf(failing, (p + 1) \div 2)] ELSE ". "]

\* C12: for every decoded body, the 400 validation response is produced
\* exactly when at least one of the five rules fails, and it carries one message
\* per failing rule, for all failing rules, in the fixed order, joined by ". ".
C12_AllFailuresReported ==
    \A r \in Handled :
        (req[r].body.kind = "json") =>
            \E failing \in {FailingRules(req[r].body.value)} :
                /\ (failing # {}) <=> (req[r].pc = "done" /\ req[r].resp.status = 400)
                /\ (failing # {}) =>
                        req[r].resp = Response(400, ErrorBody(ExpectedPieces(failing)))

\* the headings of the sections of a message
Headings(msg) == {msg[i].label : i \in {j \in 1..Len(msg) : msg[j].kind = "h3"}}

\* a section heading with nothing under it
HasEmptySection(msg) ==
    \E i \in 1..Len(msg) :
        /\ msg[i].kind = "h3"
        /\ \/ i = Len(msg)
           \/ msg[i + 1].kind \notin {"row", "text", "table", "p"}
           \/ msg[i + 1].kind = "table" /\ msg[i + 2].kind # "row"

\* C13: in the plain-text and the markup message of every submission, the
\* section of additional information appears only when one of its fields is
\* present and non-empty, the section of notes only when notes is; neither
\* message has a heading with nothing under it, and both show the same sections.
C13_SectionsOnlyForGivenFields ==
    \A r \in Handled :
        req[r].sends # <<>> =>
            \E sd \in {req[r].sanitizedData}, m \in {req[r].sends[1]} :
                /\ \A msg \in {m.text, m.html} :
                    /\ "Dodatkowe informacje" \in Headings(msg) =>
                            \E k \in {"hasPV", "pvPower", "hasStorage", "storageCapacity"} :
                                Given(sd, k)
                    /\ "Uwagi od klienta" \in Headings(msg) => Given(sd, "notes")
                    /\ ~HasEmptySection(msg)
                /\ Headings(m.text) = Headings(m.html)

RequiredFields == {"buildingType", "area", "location", "email", "phone"}

\* C20: whenever a send has been issued, the sanitized data holds all five
\* required fields, and the reply-to of the business notification and the
\* recipient of the confirmation are the submitted email that passed validation.
C20_RequiredFieldsSurvive ==
    \A r \in Handled :
        req[r].sends # <<>> =>
            /\ RequiredFields \subseteq DOMAIN req[r].sanitizedData
            /\ \A i \in 1..Len(req[r].sends) :
                \E m \in {req[r].sends[i]},
                   address \in {IF req[r].sends[i].kind = "business"
                                   THEN req[r].sends[i].replyTo ELSE req[r].sends[i].to} :
                    /\ address.t = "string"
                    /\ validateEmail(address)
                    /\ address = Get(req[r].body.value, "email")

(***************************************************************************)
(* A burst of requests of one client (SpecBurst): up to MaxBurst requests  *)
(* resolving to "ip1", two handlers in flight at a time, interleaved at    *)
(* their awaits with each other, with the sweep and with the clock.  Each  *)
(* call of checkRateLimit is logged and each response counted.             *)
(***************************************************************************)
BurstEnv == Env(Str(ApiKey), Str(BusinessInbox), Str(SenderAddress), Undefined)

BurstBodies ==
    {InvalidJson,
     Json(Obj(ValidFields)),
     Json(Obj(With(ValidFields, "email", Str(<<"a", "@", "b">>))))}

\* POST is called for a request of ip1; its call of checkRateLimit is logged
Arrival(r) ==
    /\ started < MaxBurst
    /\ PostRuns(r, BurstEnv, "ip1", "")
    /\ log' = [log EXCEPT !["ip1"] = Append(@, LogEntry("ip1"))]

\* the handler ends; its response is counted
Departure(r) ==
    /\ FinishRuns(r)
    /\ served' = [served EXCEPT ![req[r].resp.status] = @ + 1]

NextBurst ==
    \/ \E r \in Slots : Arrival(r)
    \/ \E r \in Slots, body \in BurstBodies : JsonSettles(r, body)
    \/ \E r \in Slots, outcome \in SendOutcomes : BusinessSendSettles(r, outcome)
    \/ \E r \in Slots, outcome \in SendOutcomes : ConfirmationSendSettles(r, outcome)
    \/ \E r \in Slots : Departure(r)
    \/ SweepRuns /\ UNCHANGED last
    \/ /\ advances + 1 < MaxAdvances
       /\ ClockAdvances(RATE_LIMIT_WINDOW + 1)
       /\ UNCHANGED last

SpecBurst == InitEmptyTable /\ [][NextBurst]_vars

(***************************************************************************)
(* Properties of bursts of one client (checked under SpecBurst).           *)
(***************************************************************************)
\* C16: with handlers of one client interleaved at their awaits with each
\* other and with the sweep, no more than 5 requests are admitted against one
\* record (one windowStart), and the count of the client's record is the number
\* of requests admitted against it: no increment is lost.
C16_AtMostFivePerRecord ==
    \A c \in Clients :
        /\ \A i \in Calls(c) : Cardinality(AdmittedInWindow(c, log[c][i].ts)) <= 5
        /\ c \in DOMAIN rateLimitMap =>
            rateLimitMap[c].count
                = Cardinality(AdmittedInWindow(c, rateLimitMap[c].timestamp))

\* C16 witness: while one handler waits for a send, five requests of the client
\* have been admitted against the record and a sixth was answered 429 by the
\* other handler.
C16_Witness ==
    \E r1, r2 \in Handled :
        /\ req[r1].pc \in {"send1", "send2"}
        /\ req[r1].admitted
        /\ req[r2].resp = RateLimitResponse
        /\ rateLimitMap["ip1"].count = 5
        /\ Cardinality(AdmittedInWindow("ip1", rateLimitMap["ip1"].timestamp)) = 5
        /\ Len(log["ip1"]) = 6

\* the step is one of a handler past its rate check: request.json() or a send
\* settles, or the handler ends
IsLaterStep == started' = started /\ req' # req

\* C17: no step of a handler after its rate check changes the table, whatever
\* the outcome of the request; and a request that arrives when 5 requests of
\* its client were admitted in the current window is answered 429 in the step
\* of its arrival, before its body is read.
C17_QuotaSpentWhateverOutcome ==
    [][/\ IsLaterStep => rateLimitMap' = rateLimitMap
       /\ \A c \in Clients :
            (IsCallOf(c) /\ log[c] # <<>>) =>
                \E ws \in {log[c][Len(log[c])].ts} :
                    (Cardinality(AdmittedInWindow(c, ws)) >= 5
                            /\ now - ws <= RATE_LIMIT_WINDOW) =>
                        \E r \in Slots :
                            /\ req[r].pc = "idle"
                            /\ req'[r].pc = "done"
                            /\ req'[r].resp = RateLimitResponse
                            /\ req'[r].resp.status = 429
                            /\ req'[r].body = IdleRequest.body
                            /\ "Parse" \notin {req'[r].trace[i] : i \in 1..Len(req'[r].trace)}]_vars

\* C17 witness: five requests of the client ended with status 400, and the
\* sixth, arriving in the same window, was answered 429.
C17_Witness ==
    /\ served[400] = 5
    /\ Len(log["ip1"]) = 6
    /\ \A i \in 1..6 : log["ip1"][i].ts = log["ip1"][1].ts
    /\ \E r \in Handled : req[r].resp = RateLimitResponse

(***************************************************************************)
(* Many calls of one client (SpecOneClient): up to MaxCallsOneClient calls *)
(* of checkRateLimit("ip1"), with the sweep and the clock in between.      *)
(***************************************************************************)
NextOneClient ==
    \/ Len(log["ip1"]) < MaxCallsOneClient /\ CheckRateLimitRuns("ip1")
    \/ Sweep
    \/ \E d \in ClockSteps : Tick(d)

SpecOneClient == InitLimiter /\ [][NextOneClient]_vars

\* the calls of c from the i-th to the j-th that were admitted
AdmittedBetween(c, i, j) == {k \in i..j : log[c][k].ok}

\* C18: of the calls of a client that fall in any interval of 60 seconds
\* (60 000 ms, end points included), at most 10 are admitted.
C18_AtMostTenPerInterval ==
    \A c \in Clients : \A i, j \in Calls(c) :
        (i <= j /\ log[c][j].t - log[c][i].t <= RATE_LIMIT_WINDOW) =>
            Cardinality(AdmittedBetween(c, i, j)) <= 10

\* C18 witness: an interval of 60 seconds that meets two windows of the client:
\* 9 of the calls in it were admitted and one was rejected.
C18_Witness ==
    \E i, j \in Calls("ip1") :
        /\ i < j
        /\ log["ip1"][j].t - log["ip1"][i].t <= RATE_LIMIT_WINDOW
        /\ log["ip1"][i].ts # log["ip1"][j].ts
        /\ Cardinality(AdmittedBetween("ip1", i, j)) >= 9
        /\ \E k \in i..j : ~log["ip1"][k].ok

(***************************************************************************)
(* Two runs side by side (SpecIsolation): rateLimitMap is the table of the *)
(* first run, twinMap the table of the second.  The calls of the observed  *)
(* client, the runs of the sweep and the clock are the same in both; the   *)
(* calls of the other client are made in either run on its own.            *)
(***************************************************************************)
Observed == "ip1"

\* checkRateLimit(Observed) is called in both runs
CallInBothRuns ==
    /\ rateLimitMap' = checkRateLimitTable(rateLimitMap, Observed, now)
    /\ twinMap' = checkRateLimitTable(twinMap, Observed, now)
    /\ last' = Event("check", Observed, checkRateLimitReturns(rateLimitMap, Observed, now))
    /\ UNCHANGED <<now, advances, noSweepMap, log, req, started, served, sanitized>>

\* checkRateLimit(ip) is called in the first run only
CallInFirstRun(ip) ==
    /\ rateLimitMap' = checkRateLimitTable(rateLimitMap, ip, now)
    /\ last' = Event("check", ip, checkRateLimitReturns(rateLimitMap, ip, now))
    /\ UNCHANGED <<now, advances, noSweepMap, log, req, started, served, twinMap, sanitized>>

\* checkRateLimit(ip) is called in the second run only
CallInSecondRun(ip) ==
    /\ twinMap' = checkRateLimitTable(twinMap, ip, now)
    /\ last' = Event("check in second run", ip, checkRateLimitReturns(twinMap, ip, now))
    /\ UNCHANGED <<rateLimitMap, now, advances, noSweepMap, log, req, started, served,
                   sanitized>>

\* the interval callback runs in both runs
SweepInBothRuns ==
    /\ rateLimitMap' = SweepTable(rateLimitMap, now)
    /\ twinMap' = SweepTable(twinMap, now)
    /\ last' = Event("sweep", "", TRUE)
    /\ UNCHANGED <<now, advances, noSweepMap, log, req, started, served, sanitized>>

NextIsolation ==
    \/ CallInBothRuns
    \/ \E ip \in Clients \ {Observed} : CallInFirstRun(ip)
    \/ \E ip \in Clients \ {Observed} : CallInSecondRun(ip)
    \/ SweepInBothRuns
    \/ \E d \in ClockSteps : Tick(d)

SpecIsolation == InitLimiter /\ [][NextIsolation]_vars

\* the records of a table other than that of client c
OtherRecords(map, c) == [k \in (DOMAIN map) \ {c} |-> map[k]]

\* C19: a call of checkRateLimit for a client leaves every other client's
\* record as it was, and a call of the observed client gets the same decision
\* in two runs that differ only in the calls of the other client.
C19_ClientIsolation ==
    [][/\ last'.op = "check" =>
            OtherRecords(rateLimitMap', last'.ip) = OtherRecords(rateLimitMap, last'.ip)
       /\ (last'.op = "check" /\ last'.ip = Observed) =>
            /\ last'.ok = checkRateLimitReturns(rateLimitMap, Observed, now)
            /\ last'.ok = checkRateLimitReturns(twinMap, Observed, now)
            /\ rateLimitMap'[Observed] = twinMap'[Observed]]_vars

\* C19 witness: the observed client has just been rejected while the other
\* client is at its limit in the first run and has no record in the second.
C19_Witness ==
    /\ last = Event("check", Observed, FALSE)
    /\ "ip2" \in DOMAIN rateLimitMap
    /\ rateLimitMap["ip2"].count = RATE_LIMIT_MAX
    /\ "ip2" \notin DOMAIN twinMap
    /\ rateLimitMap[Observed] = twinMap[Observed]

====
